---- MODULE Spec2Model ----
(***************************************************************************)
(* MLB Wins Pool Tracker (src/app.py).                                     *)
(*                                                                         *)
(* A date string "YYYY-MM-DD" is the tuple <<y, m, d>>; a date object is   *)
(* its proleptic Gregorian ordinal.  A pandas DataFrame is a record        *)
(* [columns, index, rows]; a raised exception is a result whose field      *)
(* `raised` names the exception class ("none" when the call returned).     *)
(***************************************************************************)
EXTENDS Integers, Sequences, FiniteSets, TLC

VARIABLES
    today,        \* the clock when last read: ordinal of datetime.today().date()
    fetchCache,   \* st.cache_data of fetch_standings_for_date: date string -> DataFrame
    histCache,    \* st.cache_data of fetch_history: <<start, end>> -> DataFrame
    calls,        \* top-level calls started since the process started
    faults,       \* anomalous answers of the provider and stopped scripts since the process started
    thread,         \* per script thread: where its call stands, what it did and returned
    response,     \* pure-function runs: the HTTP response under test
    standings,    \* pure-function runs: result of fetch_standings_for_date
    totals,       \* pure-function runs: result of calculate_totals
    stage,        \* pure-function runs: "input", "fetched", "aggregated"
    loop          \* stepwise run of one fetch_history call

vars == <<today, fetchCache, histCache, calls, faults, thread,
          response, standings, totals, stage, loop>>

-----------------------------------------------------------------------------
(* Bounds of the model. *)

\* top-level calls (runs of main, direct calls of the two memoized functions)
\* started per process lifetime, each in a script thread of its own
MaxCalls == 2
\* faults per process lifetime: a GET, of any date, that the provider answers
\* down or empty, or a script that streamlit stops before its end
MaxFaults == 1
\* the clock reads FirstDay to FirstDay + MaxSpan; direct calls name these days
MaxSpan == 1
\* pure-function runs: divisions per payload, teams per division, wins per team
MaxDivs == 2
MaxTeamsPerDiv == 2
MaxWins == 1

-----------------------------------------------------------------------------
(* Calendar arithmetic of datetime.date.                                   *)

IsLeap(y) == (y % 4 = 0) /\ ((y % 100 # 0) \/ (y % 400 = 0))

DaysInMonth(y, m) ==
    IF m = 2 THEN (IF IsLeap(y) THEN 29 ELSE 28)
    ELSE IF m \in {4, 6, 9, 11} THEN 30 ELSE 31

DaysBeforeYear(y) ==
    LET p == y - 1 IN 365 * p + (p \div 4) - (p \div 100) + (p \div 400)

RECURSIVE DaysBeforeMonth(_, _)
DaysBeforeMonth(y, m) ==
    IF m = 1 THEN 0 ELSE DaysBeforeMonth(y, m - 1) + DaysInMonth(y, m - 1)

\* datetime.fromisoformat(s).date(): the date object of a date string
fromisoformat(s) == DaysBeforeYear(s[1]) + DaysBeforeMonth(s[1], s[2]) + s[3]

RECURSIVE YearOf(_, _)
YearOf(n, y) == IF n > DaysBeforeYear(y + 1) THEN YearOf(n, y + 1) ELSE y

RECURSIVE MonthDayOf(_, _, _)
MonthDayOf(y, m, rest) ==
    IF rest > DaysInMonth(y, m) THEN MonthDayOf(y, m + 1, rest - DaysInMonth(y, m))
    ELSE <<y, m, rest>>

\* d.isoformat(): the date string of a date object
isoformat(n) ==
    LET y == YearOf(n, (n \div 366) + 1)
    IN  MonthDayOf(y, 1, n - DaysBeforeYear(y))

\* pd.to_datetime(df['date']): the timestamp of a date string
to_datetime(s) == fromisoformat(s)

-----------------------------------------------------------------------------
(* Configuration.                                                          *)

PARTICIPANT_TEAMS ==
    [p \in {"Nick", "Doug", "Ryan Hi", "Peter", "Ryan Hu", "Colin"} |->
        CASE p = "Nick"    -> <<0, 10, 18, 7, 19>>
          [] p = "Doug"    -> <<4, 8, 5, 23, 12>>
          [] p = "Ryan Hi" -> <<27, 25, 13, 24, 14>>
          [] p = "Peter"   -> <<1, 20, 26, 22, 9>>
          [] p = "Ryan Hu" -> <<15, 16, 3, 21, 29>>
          [] p = "Colin"   -> <<28, 11, 2, 6, 17>>]

Participants == DOMAIN PARTICIPANT_TEAMS

\* the radio's options and the days each subtracts from today
TIME_RANGES == {"Past 30 Days", "Past 14 Days", "Past Week"}

PastWeekDays == 7
Past14Days == 14
Past30Days == 30

RangeDays(time_range) ==
    IF time_range = "Past Week" THEN PastWeekDays
    ELSE IF time_range = "Past 14 Days" THEN Past14Days
    ELSE Past30Days

-----------------------------------------------------------------------------
(* pandas.                                                                 *)

\* pd.DataFrame(rows) of a list of dicts: no rows, no columns; a RangeIndex
DataFrame(rows) ==
    [columns |-> IF rows = <<>> THEN {} ELSE DOMAIN rows[1],
     index |-> [k \in 1..Len(rows) |-> k - 1],
     rows |-> rows]

EmptyFrame == DataFrame(<<>>)

RECURSIVE SumSeq(_)
SumSeq(s) == IF s = <<>> THEN 0 ELSE Head(s) + SumSeq(Tail(s))

-----------------------------------------------------------------------------
(* fetch_standings_for_date: one GET, raise_for_status, json, flatten.     *)

TeamKeys == {"name", "wins", "losses"}

\* the rows of one division: `for team in division.get('teamRecords', [])`
RECURSIVE TeamRows(_)
TeamRows(teams) ==
    IF teams = <<>> THEN [raised |-> "none", rows |-> <<>>]
    ELSE IF ~(TeamKeys \subseteq DOMAIN Head(teams))
         THEN [raised |-> "KeyError", rows |-> <<>>]
    ELSE LET t == Head(teams)
             rest == TeamRows(Tail(teams))
         IN  IF rest.raised # "none" THEN rest
             ELSE [raised |-> "none",
                   rows |-> <<[team |-> t.name, wins |-> t.wins, losses |-> t.losses]>>
                            \o rest.rows]

\* a variant that indexes division['teamRecords'] instead of using .get
RECURSIVE DivisionRowsStrict(_)
DivisionRowsStrict(divisions) ==
    IF divisions = <<>> THEN [raised |-> "none", rows |-> <<>>]
    ELSE IF "teamRecords" \notin DOMAIN Head(divisions)
         THEN [raised |-> "KeyError", rows |-> <<>>]
    ELSE LET first == TeamRows(Head(divisions).teamRecords)
         IN  IF first.raised # "none" THEN first
             ELSE LET rest == DivisionRowsStrict(Tail(divisions))
                  IN  IF rest.raised # "none" THEN rest
                      ELSE [raised |-> "none", rows |-> first.rows \o rest.rows]

\* `for division in payload.get('records', [])`
RECURSIVE DivisionRows(_)
DivisionRows(divisions) ==
    IF divisions = <<>> THEN [raised |-> "none", rows |-> <<>>]
    ELSE LET division == Head(divisions)
             teams == IF "teamRecords" \in DOMAIN division
                      THEN division.teamRecords ELSE <<>>
             first == TeamRows(teams)
         IN  IF first.raised # "none" THEN first
             ELSE LET rest == DivisionRows(Tail(divisions))
                  IN  IF rest.raised # "none" THEN rest
                      ELSE [raised |-> "none", rows |-> first.rows \o rest.rows]

\* response.raise_for_status() raises for 400 <= status_code < 600 only
ClientErrorStatus == 400
AboveErrorStatus == 600

\* the function body, given the provider's response to its GET
fetch_standings_for_date(resp) ==
    IF ClientErrorStatus <= resp.status_code /\ resp.status_code < AboveErrorStatus
    THEN [raised |-> "HTTPError", value |-> EmptyFrame]
    ELSE IF ~resp.is_json
    THEN [raised |-> "JSONDecodeError", value |-> EmptyFrame]
    ELSE LET payload == resp.body
             records == IF "records" \in DOMAIN payload THEN payload.records ELSE <<>>
             got == DivisionRows(records)
         IN  IF got.raised # "none"
             THEN [raised |-> got.raised, value |-> EmptyFrame]
             ELSE [raised |-> "none", value |-> DataFrame(got.rows)]

-----------------------------------------------------------------------------
(* calculate_totals.                                                       *)

\* [i for i in idxs if 0 <= i < len(df)]
RECURSIVE ValidIdxs(_, _)
ValidIdxs(idxs, n) ==
    IF idxs = <<>> THEN <<>>
    ELSE IF 0 <= Head(idxs) /\ Head(idxs) < n
         THEN <<Head(idxs)>> \o ValidIdxs(Tail(idxs), n)
         ELSE ValidIdxs(Tail(idxs), n)

\* df.iloc[valid]['wins'].sum(); iloc is 0-based, TLA+ sequences 1-based
WinsAt(df, valid) == SumSeq([k \in 1..Len(valid) |-> df.rows[valid[k] + 1].wins])

calculate_totals(df) ==
    IF "wins" \notin df.columns
    THEN [raised |-> "KeyError", value |-> [p \in Participants |-> 0]]
    ELSE [raised |-> "none",
          value |-> [p \in Participants |->
                        WinsAt(df, ValidIdxs(PARTICIPANT_TEAMS[p], Len(df.rows)))]]

-----------------------------------------------------------------------------
(* The standings provider (external): what a GET for a date may answer.    *)

SuccessStatus == 200
UnavailableStatus == 503
Divisions == 6
TeamsPerDivision == 5

\* the full standings of date n: 6 divisions of 5 teams, wins growing by day
HealthyBody(n) ==
    [records |->
        [dv \in 1..Divisions |->
            [teamRecords |->
                [k \in 1..TeamsPerDivision |->
                    LET i == (dv - 1) * TeamsPerDivision + (k - 1)
                    IN  [name |-> i,
                         wins |-> ((n + i) % 7) + (i % 3),
                         losses |-> (n + 2 * i) % 7]]]]]

JsonResponse(body) == [status_code |-> SuccessStatus, is_json |-> TRUE, body |-> body]

AnomalyKinds == {"down", "empty"}

FirstDay == fromisoformat(<<2025, 6, 1>>)

\* the days of the clock; the date strings a direct backfill may name as
\* start_date or end_date
Window == {isoformat(FirstDay + k) : k \in 0..MaxSpan}

\* every date string a call can ask the provider for
Calendar == {isoformat(n) : n \in (FirstDay - Past30Days)..(FirstDay + MaxSpan)}

\* the response to a GET for date string ds when the provider is in `kind`
ProviderResponse(kind, ds) ==
    CASE kind = "ok"    -> JsonResponse(HealthyBody(fromisoformat(ds)))
      [] kind = "down"  -> [status_code |-> UnavailableStatus, is_json |-> FALSE,
                            body |-> [message |-> "unavailable"]]
      [] kind = "empty" -> JsonResponse([records |-> <<>>])

-----------------------------------------------------------------------------
(* The responses of the pure-function runs.                                *)

RECURSIVE SeqsUpTo(_, _)
SeqsUpTo(S, n) ==
    IF n = 0 THEN {<<>>}
    ELSE LET shorter == SeqsUpTo(S, n - 1)
         IN  shorter \cup {Append(s, x) : s \in {t \in shorter : Len(t) = n - 1}, x \in S}

TeamChoices == {[name |-> 0, wins |-> w, losses |-> 0] : w \in 0..MaxWins}

DivisionChoices ==
    {[teamRecords |-> ts] : ts \in SeqsUpTo(TeamChoices, MaxTeamsPerDiv)}
        \cup {[division |-> 200]}

BodyChoices ==
    {[records |-> ds] : ds \in SeqsUpTo(DivisionChoices, MaxDivs)}
        \cup {[copyright |-> "MLB"]}

WinsBody(ws) ==
    [records |-> <<[teamRecords |->
        [k \in 1..Len(ws) |-> [name |-> k, wins |-> ws[k], losses |-> 0]]]>>]

ExampleDay == <<2024, 6, 1>>

ExampleResponses ==
    { JsonResponse(WinsBody(<<5, 3, 7>>)),
      JsonResponse(WinsBody(<<4, 9>>)),
      JsonResponse(WinsBody(<<1, 2, 3, 4, 5, 6, 7, 8>>)),
      JsonResponse([records |-> <<[teamRecords |-> <<[name |-> 0, losses |-> 2]>>]>>]),
      JsonResponse([records |-> <<[teamRecords |-> <<[name |-> 0, wins |-> 2]>>]>>]),
      JsonResponse([records |-> <<[teamRecords |-> <<[wins |-> 1, losses |-> 2]>>]>>]),
      JsonResponse([records |-> <<[teamRecords |-> <<[name |-> 0, wins |-> 1, losses |-> 0]>>],
                                  [teamRecords |-> <<[name |-> 1, wins |-> 2]>>]>>]),
      [status_code |-> SuccessStatus, is_json |-> FALSE, body |-> [message |-> "<html>"]],
      [status_code |-> 404, is_json |-> TRUE, body |-> HealthyBody(fromisoformat(ExampleDay))],
      [status_code |-> 304, is_json |-> TRUE, body |-> WinsBody(<<5, 3, 7>>)],
      [status_code |-> 599, is_json |-> TRUE, body |-> WinsBody(<<5, 3, 7>>)],
      [status_code |-> 600, is_json |-> TRUE, body |-> WinsBody(<<5, 3, 7>>)],
      [status_code |-> 600, is_json |-> FALSE, body |-> [message |-> "<html>"]] }
    \cup {ProviderResponse(k, ExampleDay) : k \in {"ok"} \cup AnomalyKinds}

PureResponses == {JsonResponse(b) : b \in BodyChoices} \cup ExampleResponses

NoResponse == [status_code |-> 0, is_json |-> FALSE, body |-> [message |-> "none"]]
NoFrame == [raised |-> "unset", value |-> EmptyFrame]
NoTotals == [raised |-> "unset", value |-> [p \in Participants |-> 0]]

-----------------------------------------------------------------------------
(* The two st.cache_data memoizations and the body of fetch_history.       *)

EmptyCache == <<>>

\* what the function body does with each answer the provider can give, tabulated
\* once: the body is a pure function of the response
Fetched ==
    [kind \in {"ok"} \cup AnomalyKinds |->
        [ds \in Calendar |-> fetch_standings_for_date(ProviderResponse(kind, ds))]]

\* fetch_standings_for_date behind @st.cache_data: a return is memoized by its
\* argument, a raise is not; `kind` is the provider's state if a GET is made
Memoize(ds, cache, r) ==
    [raised |-> r.raised, value |-> r.value,
     cache |-> IF r.raised = "none" THEN cache @@ (ds :> r.value) ELSE cache,
     read |-> TRUE]

CachedFetch(ds, cache, kind) ==
    IF ds \in DOMAIN cache
    THEN [raised |-> "none", value |-> cache[ds], cache |-> cache, read |-> FALSE]
    ELSE Memoize(ds, cache, Fetched[kind][ds])

\* entry = {**totals.to_dict(), 'date': ds}
Entry(tot, ds) == [k \in Participants \cup {"date"} |-> IF k = "date" THEN ds ELSE tot[k]]

\* lines 77-82: standings `f` are in hand, t is what calculate_totals did
TryTotals(acc, ds, f, t) ==
    IF t.raised # "none"
    THEN [acc EXCEPT !.cache = f.cache, !.warned = Append(@, ds)]
    ELSE [acc EXCEPT !.cache = f.cache, !.history = Append(@, Entry(t.value, ds))]

\* lines 76-82: f is what fetch_standings_for_date(ds) did
TryFetched(acc, ds, f) ==
    IF f.raised # "none"
    THEN [acc EXCEPT !.fetchFailed = @ \cup {ds}, !.warned = Append(@, ds)]
    ELSE TryTotals(acc, ds, f, calculate_totals(f.value))

\* the GETs made so far
NoteRead(acc, ds, f) == [acc EXCEPT !.reads = IF f.read THEN @ \cup {ds} ELSE @]

\* lines 75-82: the try block for the date string ds
TryDate(acc, ds, prov) ==
    TryFetched(NoteRead(acc, ds, CachedFetch(ds, acc.cache, prov[ds])), ds,
               CachedFetch(ds, acc.cache, prov[ds]))

\* a variant whose append sits in the try block and again after it
LoopBodyAppendsTwice(acc, start, i, prov) ==
    LET ds == isoformat(start + i)
        f == CachedFetch(ds, acc.cache, prov[ds])
        t == calculate_totals(f.value)
        reads == IF f.read THEN acc.reads \cup {ds} ELSE acc.reads
    IN  IF f.raised # "none"
        THEN [acc EXCEPT !.reads = reads,
                         !.fetchFailed = @ \cup {ds},
                         !.warned = Append(@, ds)]
        ELSE IF t.raised # "none"
        THEN [acc EXCEPT !.reads = reads, !.cache = f.cache,
                         !.warned = Append(@, ds)]
        ELSE [acc EXCEPT !.reads = reads, !.cache = f.cache,
                         !.history = Append(Append(@, Entry(t.value, ds)),
                                            Entry(t.value, ds))]

\* one pass of the loop body for day i: fetch, aggregate, append, or skip on a raise
LoopBody(acc, start, i, prov) == TryDate(acc, isoformat(start + i), prov)

\* df['date'] = pd.to_datetime(df['date']); df.set_index('date', inplace=True)
SetDateIndex(df) ==
    [columns |-> df.columns \ {"date"},
     index |-> [k \in 1..Len(df.rows) |-> to_datetime(df.rows[k].date)],
     rows |-> [k \in 1..Len(df.rows) |-> [c \in df.columns \ {"date"} |-> df.rows[k][c]]]]

\* lines 86-90: the frame fetch_history returns for the collected entries
HistoryFrame(history) ==
    LET df == DataFrame(history)
    IN  IF df.rows # <<>> THEN SetDateIndex(df) ELSE df

\* the dates of range(days) from start_date
RangeDates(start_date, end_date) ==
    LET start == fromisoformat(start_date)
        days == (fromisoformat(end_date) - start) + 1
    IN  {isoformat(start + i) : i \in 0..(days - 1)}

\* a variant without the @st.cache_data decorator of fetch_history
HistoryNeverMemoized(key, hcache) == FALSE

\* @st.cache_data of fetch_history: is the call answered from the memo?
HistoryMemoized(key, hcache) == key \in DOMAIN hcache

\* @st.cache_data of fetch_history: the returned frame is memoized by its arguments
MemoizeHistory(key, hcache, df) ==
    [k \in DOMAIN hcache \cup {key} |-> IF k = key THEN df ELSE hcache[k]]

-----------------------------------------------------------------------------
(* main: one run of the script.                                            *)

\* a variant whose try block never reaches `except`: the run goes on
MainNeverExcept(f, t) == "none"

\* lines 102-104 and 148: where the try block of main is left for `except`
MainExcept(f, t) ==
    IF f.raised # "none" THEN "fetch"
    ELSE IF t.raised # "none" THEN "totals"
    ELSE "none"

-----------------------------------------------------------------------------
(* The running system.  Streamlit runs the script once per load or         *)
(* interaction, each run in a thread of its own; the threads of one        *)
(* process share the two memoizations.  A thread waits on the network in   *)
(* every GET, so the calls of different threads interleave date by date.   *)
(* st.cache_data computes a missing value under a lock of its key: the     *)
(* lookup, GET and store of one date are one step, and a call of           *)
(* fetch_history waits while another thread computes the same range.       *)

\* the script threads of a process lifetime, numbered as their calls start
Threads == 1..MaxCalls

\* the start dates a direct backfill may name: the window's, and the start of
\* the Past Week range of the first day
BackfillStarts == Window \cup {isoformat(FirstDay - PastWeekDays)}

\* what the provider may answer to a GET for ds, whatever the date, after n
\* faults; a memoized date is not asked
KindsFor(ds, cache, n) ==
    IF ds \in DOMAIN cache \/ n >= MaxFaults THEN {"ok"} ELSE {"ok"} \cup AnomalyKinds

\* the faults after a GET answered `kind`, n before it
Answered(n, kind) == IF kind \in AnomalyKinds THEN n + 1 ELSE n

\* a thread that runs nothing and has returned nothing
Idle ==
    [pc |-> "idle", op |-> "none", now |-> FirstDay, time_range |-> "none",
     key |-> <<isoformat(FirstDay), isoformat(FirstDay)>>,
     i |-> 0, entries |-> <<>>,
     outcome |-> "none", raised |-> "none", failedAt |-> "none",
     totals |-> NoTotals, history |-> EmptyFrame, histCalled |-> FALSE,
     computed |-> FALSE, hit |-> FALSE, fetchFailed |-> {}, warned |-> <<>>]

PureUnused ==
    /\ response = NoResponse
    /\ standings = NoFrame
    /\ totals = NoTotals
    /\ stage = "unused"

NoLoop == [pc |-> "unused"]

Init ==
    /\ today = FirstDay
    /\ fetchCache = EmptyCache
    /\ histCache = EmptyCache
    /\ calls = 0
    /\ faults = 0
    /\ thread = [s \in Threads |-> Idle]
    /\ PureUnused
    /\ loop = NoLoop

\* the call of thread s is the next to start
Starts(s) == s = calls + 1

PureUnchanged == UNCHANGED <<response, standings, totals, stage, loop>>

SystemUnchanged == UNCHANGED today /\ PureUnchanged

\* lines 92-99: streamlit starts the script; today = datetime.today(), a clock
\* that never runs backwards
MainStart(s) ==
    /\ Starts(s)
    /\ calls' = calls + 1
    /\ \E now \in today..(FirstDay + MaxSpan) :
         /\ today' = now
         /\ thread' = [thread EXCEPT ![s] = [Idle EXCEPT !.pc = "fetch", !.op = "main", !.now = now]]
    /\ UNCHANGED <<fetchCache, histCache, faults>>
    /\ PureUnchanged

\* the run ends in `except Exception as e: st.error(...)`, lines 148-149
FailedRun(run, ds, f, t, failedAt) ==
    [run EXCEPT !.pc = "done", !.outcome = "error", !.failedAt = failedAt,
                !.raised = IF failedAt = "fetch" THEN f.raised ELSE t.raised,
                !.totals = [raised |-> IF failedAt = "fetch" THEN f.raised ELSE t.raised,
                            value |-> [p \in Participants |-> 0]],
                !.fetchFailed = IF f.raised # "none" THEN {ds} ELSE {}]

\* lines 104-135: the totals are charted, the radio gives the range
RunToHistory(run, ds, f, t, time_range) ==
    [run EXCEPT !.pc = "call", !.totals = t, !.time_range = time_range,
                !.key = <<isoformat(run.now - RangeDays(time_range)), ds>>,
                !.fetchFailed = IF f.raised # "none" THEN {ds} ELSE {}]

\* lines 103-135 and 148-149, given what fetch_standings_for_date and
\* calculate_totals did
MainTry(run, ds, f, t, time_range) ==
    IF MainExcept(f, t) # "none"
    THEN FailedRun(run, ds, f, t, MainExcept(f, t))
    ELSE RunToHistory(run, ds, f, t, time_range)

\* lines 102-135: today's standings and totals, then the selected range
MainFetch(s) ==
    /\ thread[s].pc = "fetch"
    /\ \E kind \in KindsFor(isoformat(thread[s].now), fetchCache, faults),
          time_range \in TIME_RANGES :
         \E f \in {CachedFetch(isoformat(thread[s].now), fetchCache, kind)} :
           /\ fetchCache' = f.cache
           /\ faults' = Answered(faults, kind)
           /\ thread' = [thread EXCEPT ![s] =
                          MainTry(thread[s], isoformat(thread[s].now), f,
                                  calculate_totals(f.value), time_range)]
    /\ UNCHANGED <<calls, histCache>>
    /\ SystemUnchanged

\* a direct call fetch_history(start_date, end_date)
BackfillStart(s) ==
    /\ Starts(s)
    /\ calls' = calls + 1
    /\ \E start_date \in BackfillStarts, end_date \in Window :
         thread' = [thread EXCEPT ![s] =
                     [Idle EXCEPT !.pc = "call", !.op = "fetch_history",
                                  !.key = <<start_date, end_date>>]]
    /\ UNCHANGED <<fetchCache, histCache, faults>>
    /\ SystemUnchanged

\* another thread is computing fetch_history for the same arguments
Computing(s, key) ==
    \E t \in Threads \ {s} : thread[t].pc = "loop" /\ thread[t].key = key

\* line 137 (or the direct call): the memo answers, or the body starts, lines 62-68
HistoryCall(s) ==
    /\ thread[s].pc = "call"
    /\ IF HistoryMemoized(thread[s].key, histCache)
       THEN thread' = [thread EXCEPT ![s] =
                        [@ EXCEPT !.pc = "done", !.outcome = "ok", !.histCalled = TRUE,
                                  !.hit = TRUE, !.history = histCache[thread[s].key]]]
       ELSE /\ ~Computing(s, thread[s].key)
            /\ thread' = [thread EXCEPT ![s] =
                           [@ EXCEPT !.pc = "loop", !.histCalled = TRUE, !.computed = TRUE,
                                     !.i = 0, !.entries = <<>>]]
    /\ UNCHANGED <<calls, fetchCache, histCache, faults>>
    /\ SystemUnchanged

\* range(days) of lines 62-64
Days(key) == (fromisoformat(key[2]) - fromisoformat(key[1])) + 1

\* the thread's state after one pass `next` of the loop body
AfterPass(run, next) ==
    [run EXCEPT !.i = @ + 1, !.entries = next.history,
                !.fetchFailed = next.fetchFailed, !.warned = next.warned]

\* lines 69-82: one pass of the loop
HistoryStep(s) ==
    /\ thread[s].pc = "loop"
    /\ thread[s].i < Days(thread[s].key)
    /\ \E ds \in {isoformat(fromisoformat(thread[s].key[1]) + thread[s].i)} :
         \E kind \in KindsFor(ds, fetchCache, faults) :
           \E next \in {LoopBody([cache |-> fetchCache, history |-> thread[s].entries,
                                  reads |-> {},
                                  fetchFailed |-> thread[s].fetchFailed,
                                  warned |-> thread[s].warned],
                                 fromisoformat(thread[s].key[1]), thread[s].i, (ds :> kind))} :
             /\ fetchCache' = next.cache
             /\ faults' = Answered(faults, kind)
             /\ thread' = [thread EXCEPT ![s] = AfterPass(@, next)]
    /\ UNCHANGED <<calls, histCache>>
    /\ SystemUnchanged

\* lines 84-90: the frame is returned and memoized; main charts it, lines 139-146
HistoryReturn(s) ==
    /\ thread[s].pc = "loop"
    /\ thread[s].i >= Days(thread[s].key)
    /\ \E df \in {HistoryFrame(thread[s].entries)} :
         /\ histCache' = MemoizeHistory(thread[s].key, histCache, df)
         /\ thread' = [thread EXCEPT ![s] =
                        [@ EXCEPT !.pc = "done", !.outcome = "ok", !.history = df,
                                  !.i = 0, !.entries = <<>>]]
    /\ UNCHANGED <<calls, fetchCache, faults>>
    /\ SystemUnchanged

\* what a direct call of fetch_standings_for_date leaves in its thread
FetchResult(ds, f) ==
    [Idle EXCEPT !.pc = "done", !.op = "fetch_standings_for_date",
                 !.key = <<ds, ds>>,
                 !.outcome = IF f.raised = "none" THEN "ok" ELSE "error",
                 !.raised = f.raised,
                 !.failedAt = IF f.raised = "none" THEN "none" ELSE "fetch",
                 !.fetchFailed = IF f.raised # "none" THEN {ds} ELSE {}]

\* a direct call fetch_standings_for_date(date_str)
Fetch(s) ==
    /\ Starts(s)
    /\ calls' = calls + 1
    /\ \E ds \in Window :
         \E kind \in KindsFor(ds, fetchCache, faults) :
           \E f \in {CachedFetch(ds, fetchCache, kind)} :
             /\ fetchCache' = f.cache
             /\ faults' = Answered(faults, kind)
             /\ thread' = [thread EXCEPT ![s] = FetchResult(ds, f)]
    /\ UNCHANGED histCache
    /\ SystemUnchanged

\* streamlit stops the script in one of its st.* calls (a rerun, a closed
\* page): the thread ends where it is, nothing it holds is stored; a fault
Stop(s) ==
    /\ thread[s].pc \in {"fetch", "call", "loop"}
    /\ faults < MaxFaults
    /\ faults' = faults + 1
    /\ thread' = [thread EXCEPT ![s] = Idle]
    /\ UNCHANGED <<calls, fetchCache, histCache>>
    /\ SystemUnchanged

\* the process is restarted: its threads end, both memoizations start empty
Restart ==
    /\ calls > 0
    /\ fetchCache' = EmptyCache
    /\ histCache' = EmptyCache
    /\ calls' = 0
    /\ faults' = 0
    /\ thread' = [s \in Threads |-> Idle]
    /\ SystemUnchanged

Next ==
    \/ \E s \in Threads :
         \/ MainStart(s) \/ MainFetch(s)
         \/ BackfillStart(s) \/ HistoryCall(s) \/ HistoryStep(s) \/ HistoryReturn(s)
         \/ Fetch(s) \/ Stop(s)
    \/ Restart

Spec == Init /\ [][Next]_vars

-----------------------------------------------------------------------------
(* Pure-function runs.                                                     *)

\* fetch_standings_for_date(ExampleDay) when the provider answers `response`
PureFetch ==
    /\ stage = "input"
    /\ standings' = fetch_standings_for_date(response)
    /\ fetchCache' = Memoize(ExampleDay, fetchCache, fetch_standings_for_date(response)).cache
    /\ stage' = "fetched"
    /\ UNCHANGED <<today, histCache, calls, faults, thread, response, totals, loop>>

PureAggregate ==
    /\ stage = "fetched"
    /\ standings.raised = "none"
    /\ totals' = calculate_totals(standings.value)
    /\ stage' = "aggregated"
    /\ UNCHANGED <<today, fetchCache, histCache, calls, faults, thread, response, standings, loop>>

InitPure ==
    /\ today = FirstDay
    /\ fetchCache = EmptyCache
    /\ histCache = EmptyCache
    /\ calls = 0
    /\ faults = 0
    /\ thread = [s \in Threads |-> Idle]
    /\ response \in PureResponses
    /\ standings = NoFrame
    /\ totals = NoTotals
    /\ stage = "input"
    /\ loop = NoLoop

NextPure == PureFetch \/ PureAggregate

SpecPure == InitPure /\ [][NextPure]_vars

-----------------------------------------------------------------------------
(* One call of fetch_history, statement by statement (lines 62-90).        *)

Kinds == {"ok"} \cup AnomalyKinds

\* the memo of fetch_standings_for_date when the call starts
StartCaches ==
    {EmptyCache} \cup {(ds :> Fetched[k][ds].value) : ds \in Window, k \in {"ok", "empty"}}

InitLoop ==
    /\ today = FirstDay
    /\ fetchCache = EmptyCache
    /\ histCache = EmptyCache
    /\ calls = 0
    /\ faults = 0
    /\ thread = [s \in Threads |-> Idle]
    /\ PureUnused
    /\ \E start_date \in Window, end_date \in Window, cache \in StartCaches :
         loop = [pc |-> "call", start_date |-> start_date, end_date |-> end_date,
                 start |-> 0, days |-> 0, i |-> 0, history |-> <<>>,
                 cache0 |-> cache, cache |-> cache,
                 standings |-> EmptyFrame, totals |-> [p \in Participants |-> 0],
                 status |-> [ds \in RangeDates(start_date, end_date) |-> "PENDING"],
                 served |-> [ds \in RangeDates(start_date, end_date) |-> "ok"],
                 fetchOk |-> {}, warned |-> <<>>, result |-> EmptyFrame]

LoopUnchanged ==
    UNCHANGED <<today, fetchCache, histCache, calls, faults, thread,
                response, standings, totals, stage>>

\* lines 62-65
LoopEnter ==
    /\ loop.pc = "call"
    /\ loop' = [loop EXCEPT !.pc = "for",
                            !.start = fromisoformat(loop.start_date),
                            !.days = (fromisoformat(loop.end_date)
                                        - fromisoformat(loop.start_date)) + 1,
                            !.i = 0, !.history = <<>>]
    /\ LoopUnchanged

\* line 69: for i in range(days)
LoopFor ==
    /\ loop.pc = "for"
    /\ loop' = [loop EXCEPT !.pc = IF loop.i < loop.days THEN "fetch" ELSE "return"]
    /\ LoopUnchanged

\* lines 73-76, and 80-82 when the fetch raises
LoopFetch ==
    /\ loop.pc = "fetch"
    /\ LET ds == isoformat(loop.start + loop.i)
       IN  \E kind \in IF ds \in DOMAIN loop.cache THEN {"ok"} ELSE Kinds :
             LET f == CachedFetch(ds, loop.cache, kind)
             IN  loop' = IF f.raised = "none"
                         THEN [loop EXCEPT !.pc = "aggregate", !.standings = f.value,
                                           !.cache = f.cache, !.served[ds] = kind,
                                           !.fetchOk = @ \cup {ds},
                                           !.status[ds] = "FETCHED"]
                         ELSE [loop EXCEPT !.pc = "for", !.i = @ + 1,
                                           !.served[ds] = kind,
                                           !.warned = Append(@, ds),
                                           !.status[ds] = "FAILED"]
    /\ LoopUnchanged

\* line 77, and 80-82 when calculate_totals raises
LoopAggregate ==
    /\ loop.pc = "aggregate"
    /\ LET ds == isoformat(loop.start + loop.i)
           t == calculate_totals(loop.standings)
       IN  loop' = IF t.raised = "none"
                   THEN [loop EXCEPT !.pc = "append", !.totals = t.value,
                                     !.status[ds] = "AGGREGATED"]
                   ELSE [loop EXCEPT !.pc = "for", !.i = @ + 1,
                                     !.warned = Append(@, ds),
                                     !.status[ds] = "FAILED"]
    /\ LoopUnchanged

\* lines 78-79
LoopAppend ==
    /\ loop.pc = "append"
    /\ LET ds == isoformat(loop.start + loop.i)
       IN  loop' = [loop EXCEPT !.pc = "for", !.i = @ + 1,
                                !.history = Append(@, Entry(loop.totals, ds)),
                                !.status[ds] = "LOGGED"]
    /\ LoopUnchanged

\* lines 86-90
LoopReturn ==
    /\ loop.pc = "return"
    /\ loop' = [loop EXCEPT !.pc = "done", !.result = HistoryFrame(loop.history)]
    /\ LoopUnchanged

NextLoop == LoopEnter \/ LoopFor \/ LoopFetch \/ LoopAggregate \/ LoopAppend \/ LoopReturn

SpecLoop == InitLoop /\ [][NextLoop]_vars

-----------------------------------------------------------------------------
(* Properties of the pure functions (checked under SpecPure).              *)

RECURSIVE SumOver(_, _)
SumOver(S, f) ==
    IF S = {} THEN 0
    ELSE LET x == CHOOSE y \in S : TRUE IN f[x] + SumOver(S \ {x}, f)

Range(seq) == {seq[k] : k \in DOMAIN seq}

\* the sum of wins at the configured indices that lie inside the snapshot
ExpectedTotal(p, rows) ==
    SumOver({i \in Range(PARTICIPANT_TEAMS[p]) : 0 <= i /\ i < Len(rows)},
            [i \in 0..(Len(rows) - 1) |-> rows[i + 1].wins])

\* C2: for every snapshot, of any length, calculate_totals returns for every
\* participant the sum of wins at exactly the configured indices inside the
\* snapshot, each counted once, out-of-bounds indices contributing nothing.
C2_TotalsAreSumsAtValidIndices ==
    stage = "aggregated" =>
        /\ totals.raised = "none"
        /\ \A p \in Participants :
             totals.value[p] = ExpectedTotal(p, standings.value.rows)

\* Whenever calculate_totals returns, it returns the sums of C2.
SumsWhenReturned ==
    (stage = "aggregated" /\ totals.raised = "none") =>
        \A p \in Participants : totals.value[p] = ExpectedTotal(p, standings.value.rows)

\* C4: calculate_totals does not fail for any snapshot the fetcher returns,
\* short and empty snapshots included: it returns one total per participant.
C4_AggregationNeverFails ==
    stage = "aggregated" =>
        /\ totals.raised = "none"
        /\ DOMAIN totals.value = Participants

\* the body has the nested shape {records: [{teamRecords: [{name, wins, losses}]}]}
ExpectedShape(body) ==
    /\ "records" \in DOMAIN body
    /\ \A k \in DOMAIN body.records :
         /\ "teamRecords" \in DOMAIN body.records[k]
         /\ \A j \in DOMAIN body.records[k].teamRecords :
              TeamKeys \subseteq DOMAIN body.records[k].teamRecords[j]

\* some team record that is present lacks one of name, wins, losses
SomeTeamLacksKey(body) ==
    /\ "records" \in DOMAIN body
    /\ \E k \in DOMAIN body.records :
         /\ "teamRecords" \in DOMAIN body.records[k]
         /\ \E j \in DOMAIN body.records[k].teamRecords :
              ~(TeamKeys \subseteq DOMAIN body.records[k].teamRecords[j])

\* the team records present in the body
TeamCount(body) ==
    IF "records" \notin DOMAIN body THEN 0
    ELSE SumOver({k \in DOMAIN body.records : "teamRecords" \in DOMAIN body.records[k]},
                 [k \in DOMAIN body.records |->
                     IF "teamRecords" \in DOMAIN body.records[k]
                     THEN Len(body.records[k].teamRecords) ELSE 0])

\* C5 as stated: the fetch fails whenever the status is not a success or the
\* body lacks the nested shape; a missing 'records' or 'teamRecords' key is a
\* format error, not a snapshot.
C5_MalformedShapeIsAnError ==
    stage # "input" =>
        ((response.status_code \notin 200..299 \/ ~response.is_json
             \/ ~ExpectedShape(response.body))
            => standings.raised # "none" /\ ExampleDay \notin DOMAIN fetchCache)

\* C5 (amended): the fetch fails, and memoizes nothing, exactly when the
\* status is one of 400..599, the body is not JSON, or a team record that is
\* present lacks name, wins or losses; a missing 'records' or 'teamRecords'
\* key is no error and contributes no rows, so the snapshot, which is
\* memoized, holds one row per team record present.
C5_FailsOnlyOnStatusJsonOrTeamKeys ==
    stage # "input" =>
        /\ standings.raised # "none" <=>
              \/ response.status_code \in 400..599
              \/ ~response.is_json
              \/ SomeTeamLacksKey(response.body)
        /\ standings.raised # "none" => fetchCache = EmptyCache
        /\ standings.raised = "none" =>
              /\ Len(standings.value.rows) = TeamCount(response.body)
              /\ fetchCache = (ExampleDay :> standings.value)

\* a division without 'teamRecords' beside one with teams yields those teams
C5_Witness ==
    /\ stage = "fetched"
    /\ response.status_code = SuccessStatus /\ response.is_json
    /\ "records" \in DOMAIN response.body
    /\ \E k \in DOMAIN response.body.records :
          "teamRecords" \notin DOMAIN response.body.records[k]
    /\ standings.raised = "none"
    /\ standings.value.rows # <<>>

-----------------------------------------------------------------------------
(* Properties of the running system (checked under Spec).                  *)

\* what the calls that have ended did and returned
Results == {thread[s] : s \in {t \in Threads : thread[t].pc = "done"}}

\* every history frame in existence: the returned ones, and the memoized
Histories == {r.history : r \in Results} \cup {histCache[k] : k \in DOMAIN histCache}

OnePerDate(df) ==
    \A j \in DOMAIN df.index, k \in DOMAIN df.index : df.index[j] = df.index[k] => j = k

CountDate(df, n) == Cardinality({k \in DOMAIN df.index : df.index[k] = n})

IndexDates(df) == {df.index[k] : k \in DOMAIN df.index}

\* C1 as stated: every history holds at most one record per date, and a run
\* of the pipeline on a day leaves exactly one record for that day.
C1_ExactlyOneRecordPerRunDay ==
    /\ \A df \in Histories : OnePerDate(df)
    /\ \A r \in Results : r.op = "main" => CountDate(r.history, r.now) = 1

\* C1 (amended): every returned or memoized history holds at most one record
\* per date; a run never shows more than one record for its day: none when
\* the run fails, exactly one when the run computes its history.
C1_AtMostOneRecordPerDate ==
    /\ \A df \in Histories : OnePerDate(df)
    /\ \A r \in Results :
          r.op = "main" =>
              /\ CountDate(r.history, r.now) <= 1
              /\ r.outcome = "error" => CountDate(r.history, r.now) = 0
              /\ (r.outcome = "ok" /\ r.computed) => CountDate(r.history, r.now) = 1

\* a second run on the same day, served from the memos, shows the day once
\* among the other days of its range
C1_Witness ==
    \E r \in Results :
        /\ r.op = "main" /\ r.outcome = "ok" /\ r.hit
        /\ r.now = today
        /\ CountDate(r.history, today) = 1
        /\ Len(r.history.index) > 1

\* C3: a backfill is never aborted by a failing date: every date of the range
\* is still asked for, and the result holds a record for exactly the dates
\* whose fetch succeeded.
C3_RecordForEveryFetchedDate ==
    \A r \in Results :
        (r.op = "fetch_history" /\ r.computed) =>
            LET dates == RangeDates(r.key[1], r.key[2])
            IN  /\ \A d \in dates : d \in r.fetchFailed \/ d \in DOMAIN fetchCache
                /\ IndexDates(r.history) = {to_datetime(d) : d \in dates \ r.fetchFailed}

\* C6: a run whose fetch of today's snapshot fails is a failed run: no
\* totals, no memoized snapshot or history created or changed, no backfill.
C6_Step ==
    \A s \in Threads :
        (/\ thread[s].op = "main" /\ thread[s].pc = "fetch"
         /\ thread'[s].pc # "idle"
         /\ isoformat(thread[s].now) \in thread'[s].fetchFailed)
        => /\ thread'[s].pc = "done"
           /\ thread'[s].outcome = "error"
           /\ thread'[s].failedAt = "fetch"
           /\ thread'[s].totals.raised # "none"
           /\ ~thread'[s].histCalled
           /\ thread'[s].history.rows = <<>>
           /\ histCache' = histCache
           /\ fetchCache' = fetchCache

C6_FailedFetchChangesNothing == [][C6_Step]_vars

C6_Witness ==
    \E r \in Results :
        /\ r.op = "main" /\ r.outcome = "error" /\ r.failedAt = "fetch"
        /\ r.fetchFailed = {isoformat(r.now)}
        /\ isoformat(r.now) \notin DOMAIN fetchCache

\* C7: the history of (fromDate, toDate) holds only dates of the inclusive
\* interval, in strictly ascending order, both endpoints when their fetch
\* succeeds, and is empty when fromDate is after toDate.
C7_RangeHistoryCoversInterval ==
    \A r \in Results :
        (r.histCalled /\ r.computed) =>
            LET from == fromisoformat(r.key[1])
                to == fromisoformat(r.key[2])
                idx == r.history.index
            IN  /\ \A k \in DOMAIN idx : from <= idx[k] /\ idx[k] <= to
                /\ \A k \in DOMAIN idx : k > 1 => idx[k - 1] < idx[k]
                /\ from > to => idx = <<>>
                /\ from <= to =>
                      /\ r.key[1] \notin r.fetchFailed => from \in IndexDates(r.history)
                      /\ r.key[2] \notin r.fetchFailed => to \in IndexDates(r.history)

\* C8: the history a run shows for "Past Week", "Past 14 Days", "Past 30 Days"
\* is the trailing window of N = 7, 14, 30 days ending at the latest stored
\* date, hence at most N records.
C8_LastNDaysHoldsAtMostN ==
    \A r \in Results :
        (r.op = "main" /\ r.outcome = "ok" /\ r.history.index # <<>>) =>
            LET idx == r.history.index
                n == RangeDays(r.time_range)
                latest == idx[Len(idx)]
            IN  /\ Len(idx) <= n
                /\ \A k \in DOMAIN idx : idx[k] > latest - n

\* the dates whose GET had raised in the thread's running call
FailedSoFar(s) == IF thread[s].pc \in {"idle", "done"} THEN {} ELSE thread[s].fetchFailed

\* the process restarts in this step
Restarting == calls' = 0 /\ histCache' = EmptyCache /\ fetchCache' = EmptyCache

\* C10: within one process a call fetch_history(start_date, end_date) made
\* after one with the same arguments returned gives the memoized history and
\* fetches nothing (no snapshot is memoized, no fetch fails); a memoized
\* history or snapshot never changes, so a date that failed stays absent; a
\* fetch that raises memoizes nothing, and a date a call gets past without a
\* raise is memoized.
C10_Step ==
    /\ \A s \in Threads :
          (/\ thread[s].pc = "call" /\ thread'[s].pc # "idle"
           /\ thread'[s] # thread[s]
           /\ thread[s].key \in DOMAIN histCache)
          => /\ thread'[s].pc = "done"
             /\ thread'[s].history = histCache[thread[s].key]
             /\ thread'[s].fetchFailed = thread[s].fetchFailed
             /\ thread'[s].warned = thread[s].warned
             /\ histCache' = histCache
             /\ fetchCache' = fetchCache
    /\ Restarting \/
          /\ \A k \in DOMAIN histCache : k \in DOMAIN histCache' /\ histCache'[k] = histCache[k]
          /\ \A d \in DOMAIN fetchCache : d \in DOMAIN fetchCache' /\ fetchCache'[d] = fetchCache[d]
    /\ \A s \in Threads :
          (thread'[s] # thread[s] /\ thread'[s].pc # "idle") =>
              /\ \A d \in thread'[s].fetchFailed \ FailedSoFar(s) :
                     d \notin DOMAIN fetchCache /\ fetchCache' = fetchCache
              /\ (thread[s].pc = "loop" /\ thread'[s].pc = "loop") =>
                     LET d == isoformat(fromisoformat(thread[s].key[1]) + thread[s].i)
                     IN  d \notin thread'[s].fetchFailed => d \in DOMAIN fetchCache'

C10_SecondCallIsMemoized == [][C10_Step]_vars

\* a repeated backfill whose first call lost a date: the date is still absent,
\* though its snapshot is not memoized and a new fetch could succeed
C10_Witness ==
    \E r \in Results :
        /\ r.op = "fetch_history" /\ r.hit
        /\ r.history = histCache[r.key]
        /\ \E d \in RangeDates(r.key[1], r.key[2]) :
              /\ to_datetime(d) \notin IndexDates(r.history)
              /\ d \notin DOMAIN fetchCache
        /\ r.history.index # <<>>

-----------------------------------------------------------------------------
(* The per-date state machine of a backfill (checked under SpecLoop).      *)

DateTransitions ==
    {<<"PENDING", "FETCHED">>, <<"FETCHED", "AGGREGATED">>,
     <<"AGGREGATED", "LOGGED">>, <<"PENDING", "FAILED">>}

\* C9: every date of a backfill moves only along PENDING -> FETCHED ->
\* AGGREGATED -> LOGGED or PENDING -> FAILED, FAILED and LOGGED being
\* terminal, and when the call returns every date whose fetch succeeded is
\* LOGGED with its totals in the returned history.
C9_Step ==
    /\ \A ds \in DOMAIN loop.status :
          \/ loop'.status[ds] = loop.status[ds]
          \/ <<loop.status[ds], loop'.status[ds]>> \in DateTransitions
    /\ loop'.pc = "done" =>
          \A ds \in loop'.fetchOk :
              /\ loop'.status[ds] = "LOGGED"
              /\ to_datetime(ds) \in IndexDates(loop'.result)

C9_DatesFollowTheStateMachine == [][C9_Step]_vars

====
